---- MODULE Spec2Model ----
(***************************************************************************)
(* Quiz game backend (vitac-brentn/ai-quiz): the game engine of            *)
(* app/services/game_service.py, driven by a caller that holds one         *)
(* GameSession value and passes it, with the catalog, to every call; and   *)
(* the handlers of app/api/routes/game.py, each a function of the request, *)
(* the loaded catalog and the client's session cookie, serving clients     *)
(* that keep the cookie the last response left them.                       *)
(*                                                                         *)
(* Strings are sequences of character codes, so that str.strip(), string   *)
(* equality and list.sort() are modelled by what they do.  Python's        *)
(* zero-based session.cards[i] is cards[i + 1] here.                       *)
(***************************************************************************)
EXTENDS Integers, Sequences, FiniteSets, TLC

VARIABLES
    all_cards,       \* the catalog: the list of Card the engine is called with
    session,         \* the GameSession the caller holds, None before the first
    result,          \* the last engine call: operation, argument and outcome
    submissions,     \* history: successful submit_answer calls on this session
    graded_correct,  \* history: how many of them were graded correct
    app_state_cards, \* app.state.cards: the loaded catalog, None while unset
    cookies,         \* the "game" entry of each client's session cookie
    exchange,        \* the last request served and its response
    answered,        \* history: each client's answer requests answered 200
                     \* since its last start request answered 200
    graded,          \* history: the card positions those requests graded
    startup          \* the lifespan's startup: how far it came, what it cached

vars == <<all_cards, session, result, submissions, graded_correct,
          app_state_cards, cookies, exchange, answered, graded, startup>>

----------------------------------------------------------------------------
(* Values *)

\* Optional[x]
None == <<>>
Some(x) == <<x>>

\* models/card.py
Card(id, image_filename, correct_answer) ==
    [id |-> id, image_filename |-> image_filename, correct_answer |-> correct_answer]

\* models/game.py
GameSession(cards, current_index, score, total_cards) ==
    [cards |-> cards, current_index |-> current_index,
     score |-> score, total_cards |-> total_cards]

\* models/card.py
CardWithChoices(card_index, image_url, choices, total_cards) ==
    [total_cards |-> total_cards, card_index |-> card_index,
     image_url |-> image_url, choices |-> choices]

\* the outcome of an engine call: a return value or a raised ValueError
Ok(v) == [ok |-> TRUE, error |-> "", value |-> v]
Raise(e) == [ok |-> FALSE, error |-> e, value |-> <<>>]

\* a finite float >= 0: the 53 binary digits of its significand, most
\* significant first (the first is 1), and the power of two that scales the
\* significand read as a natural number; 0.0 is Float(<<>>, 0)
Float(mant, exp) == [mant |-> mant, exp |-> exp]

\* a request served: who sent it, to which route, with what argument, in
\* which stage the game of its cookie was, and the response
Exchange(client, route, arg, before, response) ==
    [client |-> client, route |-> route, arg |-> arg, before |-> before,
     response |-> response]

\* what the caller keeps of a call: the operation, its argument, its outcome
Result(op, arg, out) == [op |-> op, arg |-> arg, out |-> out]

\* models/game.py; percentage is the decimal with one place that the response
\* carries, counted in tenths
GameResultsResponse(score, total, percentage) ==
    [score |-> score, total |-> total, percentage |-> percentage]

\* models/game.py
SubmitAnswerResponse(correct, correct_answer, is_complete) ==
    [correct_answer |-> correct_answer, correct |-> correct,
     is_complete |-> is_complete]

\* an HTTP response and the "game" entry of the session cookie it leaves
Response(status, detail, body, cookie) ==
    [status |-> status, detail |-> detail, body |-> body, cookie |-> cookie]

----------------------------------------------------------------------------
(* Bounds of the model *)

\* catalogs have MinCatalog .. MaxCatalog cards
MinCatalog == 9
MaxCatalog == 12
\* catalogs with repeated answers: the cards from the u-th on share one answer,
\* u in 1 .. MaxPrefix
MaxPrefix == 2
\* random.sample outcomes enumerated: start anywhere, stride 1 .. MaxStride
MaxStride == 1
\* num_cards requested ranges over MinRequest .. MaxRequest
MinRequest == 3
MaxRequest == 7
\* callers submit the answers of the first MaxAnswerCard catalog cards
MaxAnswerCard == 2

\* where two clients are served, each answers the first MaxAnswered cards of
\* a game
MaxAnswered == 1

\* the least num_cards create_game_session accepts
MinCards == 5

----------------------------------------------------------------------------
(* Strings *)

\* characters str.strip() removes: the ASCII whitespace of str.isspace()
Whitespace == {9, 10, 11, 12, 13, 28, 29, 30, 31, 32}

RECURSIVE lstrip(_)
lstrip(s) ==
    IF s # <<>> /\ Head(s) \in Whitespace THEN lstrip(Tail(s)) ELSE s

RECURSIVE rstrip(_)
rstrip(s) ==
    IF s # <<>> /\ s[Len(s)] \in Whitespace
    THEN rstrip(SubSeq(s, 1, Len(s) - 1))
    ELSE s

\* str.strip()
strip(s) == rstrip(lstrip(s))

\* a < b for Python strings: lexicographic by code point
RECURSIVE StrLess(_, _)
StrLess(a, b) ==
    IF b = <<>> THEN FALSE
    ELSE IF a = <<>> THEN TRUE
    ELSE IF Head(a) # Head(b) THEN Head(a) < Head(b)
    ELSE StrLess(Tail(a), Tail(b))

\* insert x into the sorted list l after every element that is <= x
RECURSIVE Insert(_, _)
Insert(x, l) ==
    IF l = <<>> THEN <<x>>
    ELSE IF StrLess(x, Head(l)) THEN <<x>> \o l
    ELSE <<Head(l)>> \o Insert(x, Tail(l))

\* list.sort() of a list of strings (stable, ascending)
RECURSIVE Sort(_)
Sort(l) ==
    IF l = <<>> THEN <<>>
    ELSE Insert(l[Len(l)], Sort(SubSeq(l, 1, Len(l) - 1)))

----------------------------------------------------------------------------
(* Floats: IEEE 754 binary64 arithmetic on values >= 0 within range, each
   operation rounding its exact result to nearest, ties to even *)

\* sys.float_info.mant_dig
mant_dig == 53

\* a natural number as its binary digits, most significant first; 0 is <<>>
RECURSIVE Bits(_)
Bits(n) == IF n = 0 THEN <<>> ELSE Bits(n \div 2) \o <<n % 2>>

Zeros(n) == [i \in 1..n |-> 0]

\* the digits without their leading zeros
normal(digits) ==
    LET ones == { i \in 1..Len(digits) : digits[i] = 1 }
    IN  IF ones = {} THEN <<>>
        ELSE SubSeq(digits, CHOOSE i \in ones : \A j \in ones : i <= j, Len(digits))

\* the natural number that the digits spell
RECURSIVE natural(_)
natural(digits) ==
    IF digits = <<>> THEN 0
    ELSE 2 * natural(SubSeq(digits, 1, Len(digits) - 1)) + digits[Len(digits)]

\* long multiplication takes the digits in groups of limb_size
limb_size == 15

\* the number spelled by the i-th group of digits from the least significant
limb(digits, i) ==
    LET last == Len(digits) - limb_size * (i - 1)
    IN  natural(SubSeq(digits, IF last > limb_size THEN last - limb_size + 1 ELSE 1,
                       last))

\* the limb_size digits of v < 2^limb_size
limb_digits(v) == Zeros(limb_size - Len(Bits(v))) \o Bits(v)

\* the digits of (the groups from the i-th on) * c + carry
RECURSIVE times_from(_, _, _, _)
times_from(digits, c, carry, i) ==
    IF limb_size * (i - 1) >= Len(digits) THEN Bits(carry)
    ELSE LET v == limb(digits, i) * c + carry
         IN  times_from(digits, c, v \div 2^limb_size, i + 1)
             \o limb_digits(v % 2^limb_size)

\* the digits of digits * c + carry, for naturals c and carry below
\* 2^limb_size
times(digits, c, carry) == normal(times_from(digits, c, carry, 1))

\* the float nearest to digits * 2^exp, ties to even
round_to_double(digits, exp) ==
    LET d == normal(digits)
        n == Len(d)
    IN  IF n = 0 THEN Float(<<>>, 0)
        ELSE IF n <= mant_dig
        THEN Float(d \o Zeros(mant_dig - n), exp - (mant_dig - n))
        ELSE
          LET kept == SubSeq(d, 1, mant_dig)
              half == d[mant_dig + 1] = 1
              more == \E i \in (mant_dig + 2)..n : d[i] = 1
              up == half /\ (more \/ kept[mant_dig] = 1)
              m == IF up THEN times(kept, 1, 1) ELSE kept
          IN  IF Len(m) > mant_dig
              THEN Float(SubSeq(m, 1, mant_dig), exp + (n - mant_dig) + 1)
              ELSE Float(m, exp + (n - mant_dig))

\* float(n) for a natural number n
float_of(n) == round_to_double(Bits(n), 0)

\* 2^n mod b
RECURSIVE pow2mod(_, _)
pow2mod(n, b) ==
    IF n = 0 THEN 1 % b
    ELSE LET h == pow2mod(n \div 2, b)
         IN  (h * h * (IF n % 2 = 1 THEN 2 ELSE 1)) % b

\* the first n binary digits after the point of r / b, for r < b
quotient_digits(r, b, n) ==
    [i \in 1..n |-> (2 * ((r * pow2mod(i - 1, b)) % b)) \div b]

\* what is left of r after those n digits
remainder_after(r, b, n) == (r * pow2mod(n, b)) % b

\* a / b for naturals a and b > 0 (int.__truediv__): the quotient is developed
\* past the last digit that rounding reads, and a final digit records whether
\* anything is left of it
truediv(a, b) ==
    LET n == mant_dig + 1 + Len(Bits(b))
        left == IF remainder_after(a % b, b, n) # 0 THEN 1 ELSE 0
    IN  round_to_double(Bits(a \div b) \o quotient_digits(a % b, b, n) \o <<left>>,
                        0 - (n + 1))

\* x * n for a float x and a natural number n that float(n) holds exactly
float_mul(x, n) == round_to_double(times(x.mant, n, 0), x.exp)

\* round(x, 1) for a float x < 2^20, in tenths: the exact value of x is
\* rounded to one decimal place, ties to the even digit
round_1(x) ==
    LET y == times(x.mant, 10, 0)
        k == 0 - x.exp
        d == IF Len(y) >= k THEN y ELSE Zeros(k - Len(y)) \o y
        whole == natural(SubSeq(d, 1, Len(d) - k))
        half == k >= 1 /\ d[Len(d) - k + 1] = 1
        more == \E i \in (Len(d) - k + 2)..Len(d) : d[i] = 1
    IN  IF x.mant = <<>> THEN 0
        ELSE IF k <= 0 THEN natural(y \o Zeros(x.exp))
        ELSE IF half /\ (more \/ whole % 2 = 1) THEN whole + 1
        ELSE whole

----------------------------------------------------------------------------
(* Catalogs: the value of all_cards *)

\* the i-th answer string of the answer pool: "b", " b", "B", "d e", and
\* single letters from "f" on
PoolAnswer(i) ==
    CASE i = 1 -> <<98>>
      [] i = 2 -> <<32, 98>>
      [] i = 3 -> <<66>>
      [] i = 4 -> <<100, 32, 101>>
      [] OTHER -> <<97 + i>>

\* n cards with ids 1..n, the image file named by the id; the first u - 1
\* answers are unique and all cards from the u-th on share one answer
MakeCatalog(n, u) ==
    [i \in 1..n |-> Card(i, i, PoolAnswer(IF i < u THEN i ELSE u))]

\* the catalogs with unique answers of every size, and the catalogs of the
\* least size that admits a game in which answers repeat
Catalogs ==
    { MakeCatalog(n, n) : n \in MinCatalog..MaxCatalog }
    \cup { MakeCatalog(2 * MinCards, u) : u \in 1..MaxPrefix }

----------------------------------------------------------------------------
(* random.sample *)

\* random.sample(population, k) for a population of n elements: the positions
\* of the k elements drawn, all different, in the order drawn.  The outcomes
\* enumerated start at any position p and advance by a stride t <= MaxStride,
\* wrapping around.  (sample_with_replacement: the variant that may draw a
\* position twice, as random.choices does.)
sample_with_replacement(n, k) ==
    IF k = 0 THEN { <<>> }
    ELSE { [i \in 1..k |-> ((p - 1 + (i - 1) * t) % n) + 1] :
             p \in 1..n, t \in 0..MaxStride }
sample(n, k) ==
    IF k = 0 THEN { <<>> }
    ELSE { s \in { [i \in 1..k |-> ((p - 1 + (i - 1) * t) % n) + 1] :
                      p \in 1..n, t \in 1..MaxStride } :
             \A i, j \in 1..k : i # j => s[i] # s[j] }

----------------------------------------------------------------------------
(* GameService; an operator whose call draws at random gives the set of its
   possible outcomes *)

\* max_cards = len(all_cards) // 2  (max_cards_ceil: the variant rounding up)
max_cards_ceil(cards) == (Len(cards) + 1) \div 2
max_cards(cards) == Len(cards) \div 2

\* next((card for card in all_cards if card.id == card_id), None)
\* (find_card_or_first: the variant that falls back on the first card)
find_card_or_first(card_id, cards) ==
    LET hits == { i \in 1..Len(cards) : cards[i].id = card_id }
    IN  IF hits = {} THEN Some(cards[1])
        ELSE Some(cards[CHOOSE i \in hits : \A j \in hits : i <= j])
find_card(card_id, cards) ==
    LET hits == { i \in 1..Len(cards) : cards[i].id = card_id }
    IN  IF hits = {} THEN None
        ELSE Some(cards[CHOOSE i \in hits : \A j \in hits : i <= j])

\* [x for x in l if x != a]
RECURSIVE without(_, _)
without(l, a) ==
    IF l = <<>> THEN <<>>
    ELSE IF Head(l) # a THEN <<Head(l)>> \o without(Tail(l), a)
    ELSE without(Tail(l), a)

Min(a, b) == IF a <= b THEN a ELSE b

\* selected_cards = random.sample(all_cards, num_cards);
\* card_ids = [card.id for card in selected_cards]
\* (create_game_session_by_position: the variant that keeps the positions of
\* the cards drawn, counted from 0, in place of their ids)
create_game_session_by_position(num_cards, cards) ==
    IF num_cards < MinCards
    THEN { Raise("Number of cards must be at least 5") }
    ELSE IF num_cards > max_cards(cards)
    THEN { Raise("Number of cards must not exceed half of available cards") }
    ELSE { Ok(GameSession([i \in 1..num_cards |-> s[i] - 1], 0, 0, num_cards)) :
             s \in sample(Len(cards), num_cards) }
\* (create_game_session_cap_first: the variant that tests the cap before the
\* minimum)
create_game_session_cap_first(num_cards, cards) ==
    IF num_cards > max_cards(cards)
    THEN { Raise("Number of cards must not exceed half of available cards") }
    ELSE IF num_cards < MinCards
    THEN { Raise("Number of cards must be at least 5") }
    ELSE { Ok(GameSession([i \in 1..num_cards |-> cards[s[i]].id], 0, 0, num_cards)) :
             s \in sample(Len(cards), num_cards) }
create_game_session(num_cards, cards) ==
    IF num_cards < MinCards
    THEN { Raise("Number of cards must be at least 5") }
    ELSE IF num_cards > max_cards(cards)
    THEN { Raise("Number of cards must not exceed half of available cards") }
    ELSE { Ok(GameSession([i \in 1..num_cards |-> cards[s[i]].id], 0, 0, num_cards)) :
             s \in sample(Len(cards), num_cards) }

\* choices = [correct_answer] + selected_incorrect; choices.sort()
\* (choices_unsorted: the variant without the sort)
choices_unsorted(correct_answer, selected_incorrect) ==
    <<correct_answer>> \o selected_incorrect
choices_of(correct_answer, selected_incorrect) ==
    Sort(<<correct_answer>> \o selected_incorrect)

\* (get_current_card_with_choices_outside_session: the variant that takes
\* the incorrect answers from the cards that are not in the session)
get_current_card_with_choices_outside_session(s, cards) ==
    IF s.current_index >= s.total_cards
    THEN { Raise("Game is already complete") }
    ELSE
      LET current_card_id == s.cards[s.current_index + 1]
          found == find_card(current_card_id, cards)
      IN  IF found = None
          THEN { Raise("Card not found") }
          ELSE
            LET current_card == found[1]
                outside == SelectSeq(cards,
                             LAMBDA card : \A i \in 1..Len(s.cards) :
                                             s.cards[i] # card.id)
                all_answers == [i \in 1..Len(outside) |-> outside[i].correct_answer]
                incorrect_answers == without(all_answers, current_card.correct_answer)
                num_incorrect == Min(4, Len(incorrect_answers))
            IN  { Ok(CardWithChoices(
                        s.current_index,
                        <<"/images/", current_card.image_filename>>,
                        choices_of(current_card.correct_answer,
                            [i \in 1..num_incorrect |-> incorrect_answers[p[i]]]),
                        s.total_cards)) :
                    p \in sample(Len(incorrect_answers), num_incorrect) }

get_current_card_with_choices(s, cards) ==
    IF s.current_index >= s.total_cards
    THEN { Raise("Game is already complete") }
    ELSE
      LET current_card_id == s.cards[s.current_index + 1]
          found == find_card(current_card_id, cards)
      IN  IF found = None
          THEN { Raise("Card not found") }
          ELSE
            LET current_card == found[1]
                all_answers == [i \in 1..Len(cards) |-> cards[i].correct_answer]
                incorrect_answers == without(all_answers, current_card.correct_answer)
                num_incorrect == Min(4, Len(incorrect_answers))
            IN  { Ok(CardWithChoices(
                        s.current_index,
                        <<"/images/", current_card.image_filename>>,
                        choices_of(current_card.correct_answer,
                            [i \in 1..num_incorrect |-> incorrect_answers[p[i]]]),
                        s.total_cards)) :
                    p \in sample(Len(incorrect_answers), num_incorrect) }

\* is_correct = answer.strip() == current_card.correct_answer.strip()
\* (grade_exact: the variant without strip())
grade_exact(answer, correct_answer) == answer = correct_answer
grade(answer, correct_answer) == strip(answer) = strip(correct_answer)

\* the session after submit_answer has graded an answer: score += 1 when
\* correct, current_index += 1 always  (advance_score_always: the variant that
\* scores every answer; advance_index_on_wrong: the variant with the index
\* increment inside the else branch; advance_score_on_wrong: the variant that
\* scores the wrong answers; advance_index_on_correct: the variant that stays
\* at a card until it is answered right; advance_shortening: the variant
\* that takes one card off the total with every answer;
\* advance_scoring_double: the variant that scores 2 for a right answer)
advance_scoring_double(s, is_correct) ==
    [s EXCEPT !.score = IF is_correct THEN @ + 2 ELSE @,
              !.current_index = @ + 1]
advance_shortening(s, is_correct) ==
    [s EXCEPT !.score = IF is_correct THEN @ + 1 ELSE @,
              !.current_index = @ + 1,
              !.total_cards = @ - 1]
advance_index_on_correct(s, is_correct) ==
    [s EXCEPT !.score = IF is_correct THEN @ + 1 ELSE @,
              !.current_index = IF is_correct THEN @ + 1 ELSE @]
advance_score_on_wrong(s, is_correct) ==
    [s EXCEPT !.score = IF is_correct THEN @ ELSE @ + 1,
              !.current_index = @ + 1]
advance_score_always(s, is_correct) ==
    [s EXCEPT !.score = @ + 1, !.current_index = @ + 1]
advance_index_on_wrong(s, is_correct) ==
    [s EXCEPT !.score = IF is_correct THEN @ + 1 ELSE @,
              !.current_index = IF is_correct THEN @ ELSE @ + 1]
advance(s, is_correct) ==
    [s EXCEPT !.score = IF is_correct THEN @ + 1 ELSE @,
              !.current_index = @ + 1]

\* the outcome and the session as submit_answer leaves it
\* (submit_answer_skipping: the variant that steps over a card it cannot find
\* before it raises)
submit_answer_skipping(s, answer, cards) ==
    IF s.current_index >= s.total_cards
    THEN [session |-> s, out |-> Raise("Game is already complete")]
    ELSE
      LET current_card_id == s.cards[s.current_index + 1]
          found == find_card(current_card_id, cards)
      IN  IF found = None
          THEN [session |-> [s EXCEPT !.current_index = @ + 1],
                out |-> Raise("Card not found")]
          ELSE
            LET current_card == found[1]
                is_correct == grade(answer, current_card.correct_answer)
            IN  [session |-> advance(s, is_correct),
                 out |-> Ok([correct_answer |-> current_card.correct_answer,
                             is_correct |-> is_correct])]

\* (submit_answer_finding_last: the variant that takes the last catalog card
\* with the id, where get_current_card_with_choices takes the first)
submit_answer_finding_last(s, answer, cards) ==
    IF s.current_index >= s.total_cards
    THEN [session |-> s, out |-> Raise("Game is already complete")]
    ELSE
      LET current_card_id == s.cards[s.current_index + 1]
          hits == { i \in 1..Len(cards) : cards[i].id = current_card_id }
      IN  IF hits = {}
          THEN [session |-> s, out |-> Raise("Card not found")]
          ELSE
            LET current_card == cards[CHOOSE i \in hits : \A j \in hits : i >= j]
                is_correct == grade(answer, current_card.correct_answer)
            IN  [session |-> advance(s, is_correct),
                 out |-> Ok([correct_answer |-> current_card.correct_answer,
                             is_correct |-> is_correct])]

\* (submit_answer_returning_stripped: the variant that returns the correct
\* answer as it was compared, with its whitespace stripped)
submit_answer_returning_stripped(s, answer, cards) ==
    IF s.current_index >= s.total_cards
    THEN [session |-> s, out |-> Raise("Game is already complete")]
    ELSE
      LET current_card_id == s.cards[s.current_index + 1]
          found == find_card(current_card_id, cards)
      IN  IF found = None
          THEN [session |-> s, out |-> Raise("Card not found")]
          ELSE
            LET current_card == found[1]
                is_correct == grade(answer, current_card.correct_answer)
            IN  [session |-> advance(s, is_correct),
                 out |-> Ok([correct_answer |-> strip(current_card.correct_answer),
                             is_correct |-> is_correct])]

\* (submit_answer_restarting: the variant that puts a complete session back at
\* its first card when it refuses an answer)
submit_answer_restarting(s, answer, cards) ==
    IF s.current_index >= s.total_cards
    THEN [session |-> [s EXCEPT !.current_index = 0, !.score = 0],
          out |-> Raise("Game is already complete")]
    ELSE
      LET current_card_id == s.cards[s.current_index + 1]
          found == find_card(current_card_id, cards)
      IN  IF found = None
          THEN [session |-> s, out |-> Raise("Card not found")]
          ELSE
            LET current_card == found[1]
                is_correct == grade(answer, current_card.correct_answer)
            IN  [session |-> advance(s, is_correct),
                 out |-> Ok([correct_answer |-> current_card.correct_answer,
                             is_correct |-> is_correct])]

submit_answer(s, answer, cards) ==
    IF s.current_index >= s.total_cards
    THEN [session |-> s, out |-> Raise("Game is already complete")]
    ELSE
      LET current_card_id == s.cards[s.current_index + 1]
          found == find_card(current_card_id, cards)
      IN  IF found = None
          THEN [session |-> s, out |-> Raise("Card not found")]
          ELSE
            LET current_card == found[1]
                is_correct == grade(answer, current_card.correct_answer)
            IN  [session |-> advance(s, is_correct),
                 out |-> Ok([correct_answer |-> current_card.correct_answer,
                             is_correct |-> is_correct])]

\* current_index >= total_cards  (is_game_complete_strict: the variant with >)
is_game_complete_strict(s) == s.current_index > s.total_cards
is_game_complete(s) == s.current_index >= s.total_cards

\* (session.score / session.total_cards) * 100 if session.total_cards > 0
\* else 0.0  (percentage_unscaled: the variant without the factor 100)
percentage_unscaled(s) ==
    IF s.total_cards > 0 THEN truediv(s.score, s.total_cards) ELSE float_of(0)
percentage_of(s) ==
    IF s.total_cards > 0
    THEN float_mul(truediv(s.score, s.total_cards), 100)
    ELSE float_of(0)

\* (get_game_results_unchecked: the variant without the completeness check;
\* get_game_results_once_started: the variant that gives the results of any
\* game that has had an answer)
get_game_results_once_started(s) ==
    IF s.current_index = 0
    THEN Raise("Game is not complete yet")
    ELSE Ok([score |-> s.score, total |-> s.total_cards,
             percentage |-> percentage_of(s)])
get_game_results_unchecked(s) ==
    Ok([score |-> s.score, total |-> s.total_cards, percentage |-> percentage_of(s)])
get_game_results(s) ==
    IF ~is_game_complete(s)
    THEN Raise("Game is not complete yet")
    ELSE Ok([score |-> s.score, total |-> s.total_cards,
             percentage |-> percentage_of(s)])

----------------------------------------------------------------------------
(* The request handlers of app/api/routes/game.py *)

\* StartGameRequest: num_cards is an integer >= 5, else FastAPI answers 422
\* before the handler runs
valid_start_request(num_cards) == num_cards >= 5

\* request.session["game"] = session.model_dump()  (store_nothing: the
\* variant that leaves the cookie as it came; store_game_if_none: the variant
\* that keeps a game the cookie already holds)
store_nothing(cookie, s) == cookie
store_game_if_none(cookie, s) == IF cookie = None THEN Some(s) ELSE cookie
store_game(cookie, s) == Some(s)

\* GET /api/cards/total  (get_total_cards_unchecked: the variant that counts
\* the cards of a catalog that is not there as none)
get_total_cards_unchecked(app_cards, cookie) ==
    Response(200, "", IF app_cards = None THEN 0 ELSE Len(app_cards[1]), cookie)
get_total_cards(app_cards, cookie) ==
    IF app_cards = None
    THEN Response(503, "Cards not loaded yet", <<>>, cookie)
    ELSE Response(200, "", Len(app_cards[1]), cookie)

\* POST /api/game/start with app.state.cards = app_cards (None while not
\* loaded) from a client whose cookie holds the game `cookie` (None: no game)
\* (start_game_discarding: the variant that drops the game the client has
\* before it tests the request against the catalog)
start_game_discarding(num_cards, app_cards, cookie) ==
    IF ~valid_start_request(num_cards)
    THEN { Response(422, "Input should be greater than or equal to 5", <<>>, cookie) }
    ELSE IF app_cards = None
    THEN { Response(503, "Cards not loaded yet", <<>>, None) }
    ELSE IF num_cards > Len(app_cards[1]) \div 2
    THEN { Response(422, "Number of cards must not exceed half of total available",
                    <<>>, None) }
    ELSE { IF out.ok
           THEN Response(200, "Game started", num_cards,
                         store_game(cookie, out.value))
           ELSE Response(422, out.error, <<>>, None) :
             out \in create_game_session(num_cards, app_cards[1]) }
start_game(num_cards, app_cards, cookie) ==
    IF ~valid_start_request(num_cards)
    THEN { Response(422, "Input should be greater than or equal to 5", <<>>, cookie) }
    ELSE IF app_cards = None
    THEN { Response(503, "Cards not loaded yet", <<>>, cookie) }
    ELSE IF num_cards > Len(app_cards[1]) \div 2
    THEN { Response(422, "Number of cards must not exceed half of total available",
                    <<>>, cookie) }
    ELSE { IF out.ok
           THEN Response(200, "Game started", num_cards,
                         store_game(cookie, out.value))
           ELSE Response(422, out.error, <<>>, cookie) :
             out \in create_game_session(num_cards, app_cards[1]) }

\* GET /api/game/current  (get_current_card_catalog_first: the variant that
\* looks for the catalog before it looks for the game)
get_current_card_catalog_first(app_cards, cookie) ==
    IF app_cards = None
    THEN { Response(503, "Cards not loaded yet", <<>>, cookie) }
    ELSE IF cookie = None
    THEN { Response(404, "No active game. Please start a new game.", <<>>, cookie) }
    ELSE { IF out.ok
           THEN Response(200, "", out.value, cookie)
           ELSE Response(400, out.error, <<>>, cookie) :
             out \in get_current_card_with_choices(cookie[1], app_cards[1]) }
get_current_card(app_cards, cookie) ==
    IF cookie = None
    THEN { Response(404, "No active game. Please start a new game.", <<>>, cookie) }
    ELSE IF app_cards = None
    THEN { Response(503, "Cards not loaded yet", <<>>, cookie) }
    ELSE { IF out.ok
           THEN Response(200, "", out.value, cookie)
           ELSE Response(400, out.error, <<>>, cookie) :
             out \in get_current_card_with_choices(cookie[1], app_cards[1]) }

\* SubmitAnswerRequest: answer is a string of at least one character, else
\* FastAPI answers 422 before the handler runs
valid_answer_request(answer) == Len(answer) >= 1

\* is_complete = game_service.is_game_complete(session), the session being
\* the one submit_answer has advanced  (is_complete_before: the variant that
\* asks before the submission)
is_complete_before(s, after) == is_game_complete(s)
is_complete_after(s, after) == is_game_complete(after)

\* POST /api/game/answer
submit_answer_route(answer, app_cards, cookie) ==
    IF ~valid_answer_request(answer)
    THEN Response(422, "String should have at least 1 character", <<>>, cookie)
    ELSE IF cookie = None
    THEN Response(404, "No active game. Please start a new game.", <<>>, cookie)
    ELSE IF app_cards = None
    THEN Response(503, "Cards not loaded yet", <<>>, cookie)
    ELSE LET r == submit_answer(cookie[1], answer, app_cards[1])
         IN  IF r.out.ok
             THEN Response(200, "",
                           SubmitAnswerResponse(r.out.value.is_correct,
                               r.out.value.correct_answer,
                               is_complete_after(cookie[1], r.session)),
                           store_game(cookie, r.session))
             ELSE Response(400, r.out.error, <<>>, cookie)

\* GET /api/game/results from a client whose cookie holds the game `cookie`
get_game_results_route(cookie) ==
    IF cookie = None
    THEN Response(404, "No active game. Please start a new game.", <<>>, cookie)
    ELSE LET out == get_game_results(cookie[1])
         IN  IF out.ok
             THEN Response(200, "", GameResultsResponse(out.value.score,
                                out.value.total, round_1(out.value.percentage)),
                           cookie)
             ELSE Response(400, out.error, <<>>, cookie)

----------------------------------------------------------------------------
(* The direct caller of the engine: it holds one session value *)

\* a literal that is no card's answer: "zzz"
WrongLiteral == <<122, 122, 122>>

\* str.swapcase() on the ASCII letters
swapcase(s) ==
    [i \in 1..Len(s) |->
        IF s[i] \in 65..90 THEN s[i] + 32
        ELSE IF s[i] \in 97..122 THEN s[i] - 32
        ELSE s[i]]

\* the string without its whitespace characters
RECURSIVE squeeze(_)
squeeze(s) ==
    IF s = <<>> THEN <<>>
    ELSE IF Head(s) \in Whitespace THEN squeeze(Tail(s))
    ELSE <<Head(s)>> \o squeeze(Tail(s))

\* a client resends a cookie at most until its game has had MaxGraded answers
MaxGraded == 3

\* the answers a caller submits: the answers of the current card and of the
\* first MaxAnswerCard catalog cards, the current answer padded with
\* whitespace, with its case changed and with its whitespace removed, and a
\* literal that matches nothing
AnswerInputs(s, cards) ==
    LET cur == IF s.current_index < Len(s.cards)
               THEN find_card(s.cards[s.current_index + 1], cards)
               ELSE None
        own == IF cur = None THEN {} ELSE { cur[1].correct_answer }
    IN  own
        \cup { cards[i].correct_answer : i \in 1..Min(MaxAnswerCard, Len(cards)) }
        \cup { <<32, 32>> \o a \o <<9, 32>> : a \in own }
        \cup { swapcase(a) : a \in own }
        \cup { squeeze(a) : a \in own }
        \cup { WrongLiteral }

\* the clients of the server
Clients == {1, 2}

\* the stage of the game a cookie holds
stage(cookie) ==
    IF cookie = None THEN "none"
    ELSE IF is_game_complete(cookie[1]) THEN "complete"
    ELSE "in progress"

\* no request has been served: the catalog is not loaded, no client has a game
\* what a startup has done: the step it ended in, the cards it fetched, the
\* images it asked for in order with the outcome of each, the files in the
\* cache directory and the exception it raised ("" when none)
Startup(pc, step, cards, attempted, cache, error) ==
    [pc |-> pc, step |-> step, cards |-> cards, attempted |-> attempted,
     cache |-> cache, error |-> error]

NotStarted == Startup("not started", "", <<>>, <<>>, {}, "")

\* S3Service.download_image: s3_client.download_file writes the file, raises
\* ClientError (logged and raised again), or raises an exception of another
\* class, as boto3 does when its retries are exhausted
DownloadOutcomes == {"ok", "ClientError", "RetriesExceededError"}

\* variant of check_failed_downloads: the list of failures is only logged
check_failed_downloads_logging(failed_downloads) == Ok(<<>>)

\* download_all_images, after the loop: if failed_downloads: raise RuntimeError
check_failed_downloads(failed_downloads) ==
    IF failed_downloads # <<>> THEN Raise("RuntimeError") ELSE Ok(<<>>)

\* download_all_images, the loop from card i on: except ClientError appends
\* the file name to failed_downloads and goes on; another exception leaves
\* the function
RECURSIVE download_images_from(_, _, _, _, _, _)
download_images_from(cards, download_image, i, attempted, failed_downloads, cache) ==
    IF i > Len(cards)
    THEN [attempted |-> attempted, cache |-> cache,
          out |-> check_failed_downloads(failed_downloads)]
    ELSE LET image == cards[i].image_filename
             tried == Append(attempted,
                             [image |-> image, outcome |-> download_image[i]])
         IN  IF download_image[i] = "ok"
             THEN download_images_from(cards, download_image, i + 1, tried,
                                       failed_downloads, cache \cup {image})
             ELSE IF download_image[i] = "ClientError"
             THEN download_images_from(cards, download_image, i + 1, tried,
                                       Append(failed_downloads, image), cache)
             ELSE [attempted |-> tried, cache |-> cache,
                   out |-> Raise(download_image[i])]

\* S3Service.download_all_images(cards, cache_dir); download_image[i] is the
\* outcome of the download asked for card i
download_all_images(cards, download_image) ==
    download_images_from(cards, download_image, 1, <<>>, <<>>, {})

\* variant of lifespan: app.state.cards is set before the images are fetched
lifespan_publishing_first(initialize_cache, fetch_cards_metadata, download_image) ==
    IF ~initialize_cache
    THEN [startup |-> Startup("failed", "initialize_cache", <<>>, <<>>, {}, "OSError"),
          app_state_cards |-> None]
    ELSE IF ~fetch_cards_metadata.ok
    THEN [startup |-> Startup("failed", "fetch_cards_metadata", <<>>, <<>>, {},
                              fetch_cards_metadata.error),
          app_state_cards |-> None]
    ELSE LET cards == fetch_cards_metadata.value
             d == download_all_images(cards, download_image)
         IN  IF ~d.out.ok
             THEN [startup |-> Startup("failed", "download_all_images",
                                       cards, d.attempted, d.cache, d.out.error),
                   app_state_cards |-> Some(cards)]
             ELSE [startup |-> Startup("serving", "download_all_images",
                                       cards, d.attempted, d.cache, ""),
                   app_state_cards |-> Some(cards)]

\* main.py lifespan, up to yield: the cache directory, the metadata, every
\* image, then app.state.cards = cards; except Exception: raise. The
\* parameters are what the environment does to the three calls.
lifespan(initialize_cache, fetch_cards_metadata, download_image) ==
    IF ~initialize_cache
    THEN [startup |-> Startup("failed", "initialize_cache", <<>>, <<>>, {}, "OSError"),
          app_state_cards |-> None]
    ELSE IF ~fetch_cards_metadata.ok
    THEN [startup |-> Startup("failed", "fetch_cards_metadata", <<>>, <<>>, {},
                              fetch_cards_metadata.error),
          app_state_cards |-> None]
    ELSE LET cards == fetch_cards_metadata.value
             d == download_all_images(cards, download_image)
         IN  IF ~d.out.ok
             THEN [startup |-> Startup("failed", "download_all_images",
                                       cards, d.attempted, d.cache, d.out.error),
                   app_state_cards |-> None]
             ELSE [startup |-> Startup("serving", "download_all_images",
                                       cards, d.attempted, d.cache, ""),
                   app_state_cards |-> Some(cards)]

NoRequests ==
    /\ app_state_cards = None
    /\ cookies = [c \in Clients |-> None]
    /\ exchange = Exchange(0, "", <<>>, "none", Response(0, "", <<>>, None))
    /\ answered = [c \in Clients |-> 0]
    /\ graded = [c \in Clients |-> <<>>]
    /\ startup = NotStarted

\* no engine call has been made directly
NoCalls ==
    /\ session = None
    /\ result = Result("init", <<>>, Ok(<<>>))
    /\ submissions = 0
    /\ graded_correct = 0

Init ==
    /\ all_cards \in Catalogs
    /\ NoCalls
    /\ NoRequests

\* session = game_service.create_game_session(num_cards, all_cards)
CreateGameSession ==
    \E num_cards \in MinRequest..MaxRequest :
      \E out \in create_game_session(num_cards, all_cards) :
        /\ session' = IF out.ok THEN Some(out.value) ELSE session
        /\ result' = Result("create_game_session", <<num_cards>>, out)
        /\ submissions' = IF out.ok THEN 0 ELSE submissions
        /\ graded_correct' = IF out.ok THEN 0 ELSE graded_correct
        /\ UNCHANGED <<all_cards, app_state_cards, cookies, exchange, answered, graded, startup>>

\* game_service.get_current_card_with_choices(session, all_cards)
GetCurrentCardWithChoices ==
    /\ session # None
    /\ \E out \in get_current_card_with_choices(session[1], all_cards) :
         result' = Result("get_current_card_with_choices", <<>>, out)
    /\ UNCHANGED <<all_cards, session, submissions, graded_correct>>
    /\ UNCHANGED <<app_state_cards, cookies, exchange, answered, graded, startup>>

\* game_service.submit_answer(session, answer, all_cards)
SubmitAnswer ==
    /\ session # None
    /\ \E answer \in AnswerInputs(session[1], all_cards) :
         LET r == submit_answer(session[1], answer, all_cards)
         IN  /\ session' = Some(r.session)
             /\ result' = Result("submit_answer", answer, r.out)
             /\ submissions' = IF r.out.ok THEN submissions + 1 ELSE submissions
             /\ graded_correct' =
                  IF r.out.ok /\ r.out.value.is_correct
                  THEN graded_correct + 1 ELSE graded_correct
    /\ UNCHANGED <<all_cards, app_state_cards, cookies, exchange, answered, graded, startup>>

\* game_service.is_game_complete(session)
IsGameComplete ==
    /\ session # None
    /\ result' = Result("is_game_complete", <<>>,
                        Ok([is_complete |-> is_game_complete(session[1])]))
    /\ UNCHANGED <<all_cards, session, submissions, graded_correct>>
    /\ UNCHANGED <<app_state_cards, cookies, exchange, answered, graded, startup>>

\* game_service.get_game_results(session)
\* (GetGameResultsResetting: the variant in which reading the results puts the
\* session back at its first card)
GetGameResultsResetting ==
    /\ session # None
    /\ result' = Result("get_game_results", <<>>, get_game_results(session[1]))
    /\ session' = Some([session[1] EXCEPT !.current_index = 0, !.score = 0])
    /\ UNCHANGED <<all_cards, submissions, graded_correct>>
    /\ UNCHANGED <<app_state_cards, cookies, exchange, answered, graded, startup>>

GetGameResults ==
    /\ session # None
    /\ result' = Result("get_game_results", <<>>, get_game_results(session[1]))
    /\ UNCHANGED <<all_cards, session, submissions, graded_correct>>
    /\ UNCHANGED <<app_state_cards, cookies, exchange, answered, graded, startup>>

Next ==
    \/ CreateGameSession
    \/ GetCurrentCardWithChoices
    \/ SubmitAnswer
    \/ IsGameComplete
    \/ GetGameResults

Spec == Init /\ [][Next]_vars

----------------------------------------------------------------------------
(* The same caller when the catalog is replaced under a session it holds: the
   least catalog that admits a game, and that catalog without its last card *)

DriftCatalogs ==
    { MakeCatalog(n, n) : n \in { 2 * MinCards - 1, 2 * MinCards } }

\* the catalogs of every size up to the least that admits a game
SmallCatalogs ==
    { MakeCatalog(n, n) : n \in 0..(2 * MinCards) }

InitSmallCatalogs ==
    /\ all_cards \in SmallCatalogs
    /\ NoCalls
    /\ NoRequests

InitDrift ==
    /\ all_cards \in DriftCatalogs
    /\ NoCalls
    /\ NoRequests

\* the caller comes to hold another catalog: app.state.cards is set anew by
\* every start of the process, while a client's session outlives it
ReloadCatalog ==
    /\ \E cards \in DriftCatalogs : cards # all_cards /\ all_cards' = cards
    /\ result' = Result("load_cards", <<>>, Ok(<<>>))
    /\ UNCHANGED <<session, submissions, graded_correct>>
    /\ UNCHANGED <<app_state_cards, cookies, exchange, answered, graded, startup>>

NextDrift ==
    \/ CreateGameSession
    \/ GetCurrentCardWithChoices
    \/ SubmitAnswer
    \/ IsGameComplete
    \/ GetGameResults
    \/ ReloadCatalog

SpecDrift == InitDrift /\ [][NextDrift]_vars

----------------------------------------------------------------------------
(* The same caller over a catalog in which an id is repeated: the least
   catalog that admits a game, its last card or its second card carrying the
   id of the first, with an image and an answer of its own *)

RepeatedIdCatalogs ==
    { [MakeCatalog(2 * MinCards, 2 * MinCards) EXCEPT ![i].id = 1] :
        i \in {2, 2 * MinCards} }

InitRepeatedIds ==
    /\ all_cards \in RepeatedIdCatalogs
    /\ NoCalls
    /\ NoRequests

SpecRepeatedIds == InitRepeatedIds /\ [][Next]_vars

----------------------------------------------------------------------------
(* The caller that plays every game it creates to its end, with the catalogs
   of the drift above but none replaced: it creates a session only when it
   holds none in progress, it keeps submitting answers, and it asks whether
   the game is complete and for the results, but not for the choices *)

StartNewGame ==
    /\ IF session = None THEN TRUE ELSE is_game_complete(session[1])
    /\ CreateGameSession

NextPlay ==
    \/ StartNewGame
    \/ SubmitAnswer
    \/ IsGameComplete
    \/ GetGameResults

\* the steps of SubmitAnswer that grade an answer
Graded ==
    /\ session # None
    /\ \E answer \in AnswerInputs(session[1], all_cards) :
         \E r \in { submit_answer(session[1], answer, all_cards) } :
           r.out.ok /\ session' = Some(r.session)

\* the caller keeps submitting: an answer that can be graded is graded
SpecPlay == InitDrift /\ [][NextPlay]_vars /\ WF_session(Graded)

----------------------------------------------------------------------------
(* The server and its clients: every request carries the cookie the client
   holds, and the client keeps the cookie the response leaves *)

InitApi ==
    /\ all_cards = <<>>
    /\ NoCalls
    /\ NoRequests

\* the answers a client posts: those of a direct caller, and the empty string
AnswerRequests(app, cookie) ==
    { <<>>, WrongLiteral }
    \cup (IF app # None /\ cookie # None
          THEN AnswerInputs(cookie[1], app[1]) ELSE {})

\* SessionMiddleware: the response sets the session cookie of the client that
\* sent the request  (set_cookie_of_all: the variant with one session for all
\* clients)
set_cookie_of_all(jar, c, game) == [d \in Clients |-> game]
set_cookie(jar, c, game) == [jar EXCEPT ![c] = game]

\* lifespan: app.state.cards = cards, once the catalog has been fetched
Lifespan ==
    /\ app_state_cards = None
    /\ \E cards \in Catalogs : app_state_cards' = Some(cards)
    /\ UNCHANGED <<cookies, exchange, answered, graded, startup>>
    /\ UNCHANGED <<all_cards, session, result, submissions, graded_correct>>

\* client c posts /api/game/start
StartGame(c) ==
    /\ \E num_cards \in MinRequest..MaxRequest :
         \E r \in start_game(num_cards, app_state_cards, cookies[c]) :
           /\ cookies' = set_cookie(cookies, c, r.cookie)
           /\ exchange' = Exchange(c, "start", num_cards, stage(cookies[c]), r)
           /\ answered' = [answered EXCEPT ![c] = IF r.status = 200 THEN 0 ELSE @]
           /\ graded' = [graded EXCEPT ![c] = IF r.status = 200 THEN <<>> ELSE @]
    /\ UNCHANGED <<app_state_cards, startup>>
    /\ UNCHANGED <<all_cards, session, result, submissions, graded_correct>>

\* client c gets /api/game/current
GetCurrentCard(c) ==
    /\ \E r \in get_current_card(app_state_cards, cookies[c]) :
           /\ cookies' = set_cookie(cookies, c, r.cookie)
           /\ exchange' = Exchange(c, "current", <<>>, stage(cookies[c]), r)
    /\ UNCHANGED <<app_state_cards, answered, graded, startup>>
    /\ UNCHANGED <<all_cards, session, result, submissions, graded_correct>>

\* client c posts /api/game/answer
SubmitAnswerRoute(c) ==
    /\ \E answer \in AnswerRequests(app_state_cards, cookies[c]) :
         \E r \in { submit_answer_route(answer, app_state_cards, cookies[c]) } :
           /\ cookies' = set_cookie(cookies, c, r.cookie)
           /\ exchange' = Exchange(c, "answer", answer, stage(cookies[c]), r)
           /\ answered' = [answered EXCEPT ![c] = IF r.status = 200 THEN @ + 1 ELSE @]
           /\ graded' = [graded EXCEPT ![c] =
                           IF r.status = 200
                           THEN Append(@, cookies[c][1].current_index) ELSE @]
    /\ UNCHANGED <<app_state_cards, startup>>
    /\ UNCHANGED <<all_cards, session, result, submissions, graded_correct>>

\* client c gets /api/game/results
GetGameResultsRoute(c) ==
    /\ \E r \in { get_game_results_route(cookies[c]) } :
           /\ cookies' = set_cookie(cookies, c, r.cookie)
           /\ exchange' = Exchange(c, "results", <<>>, stage(cookies[c]), r)
    /\ UNCHANGED <<app_state_cards, answered, graded, startup>>
    /\ UNCHANGED <<all_cards, session, result, submissions, graded_correct>>

\* one client
NextApi ==
    \/ Lifespan
    \/ StartGame(1)
    \/ GetCurrentCard(1)
    \/ SubmitAnswerRoute(1)
    \/ GetGameResultsRoute(1)

SpecApi == InitApi /\ [][NextApi]_vars

\* two clients of a server that has loaded the least catalog that admits a
\* game; each answers the first MaxAnswered cards of a game
InitApi2 ==
    /\ all_cards = <<>>
    /\ NoCalls
    /\ app_state_cards = Some(MakeCatalog(2 * MinCards, 1))
    /\ cookies = [c \in Clients |-> None]
    /\ exchange = Exchange(0, "", <<>>, "none", Response(0, "", <<>>, None))
    /\ answered = [c \in Clients |-> 0]
    /\ graded = [c \in Clients |-> <<>>]
    /\ startup = NotStarted

NextApi2 ==
    \E c \in Clients :
        \/ StartGame(c)
        \/ GetCurrentCard(c)
        \/ answered[c] < MaxAnswered /\ SubmitAnswerRoute(c)
        \/ GetGameResultsRoute(c)

SpecApi2 == InitApi2 /\ [][NextApi2]_vars

\* client c gets /api/cards/total
GetTotalCards(c) ==
    /\ \E r \in { get_total_cards(app_state_cards, cookies[c]) } :
           /\ cookies' = set_cookie(cookies, c, r.cookie)
           /\ exchange' = Exchange(c, "total", <<>>, stage(cookies[c]), r)
    /\ UNCHANGED <<app_state_cards, answered, graded, startup>>
    /\ UNCHANGED <<all_cards, session, result, submissions, graded_correct>>

\* app.state loses its cards while clients keep their cookies:
\* delattr(app.state, "cards"), or a new process that has not loaded them yet
Unload ==
    /\ app_state_cards # None
    /\ app_state_cards' = None
    /\ UNCHANGED <<cookies, exchange, answered, graded, startup>>
    /\ UNCHANGED <<all_cards, session, result, submissions, graded_correct>>

\* lifespan of a server whose catalog is always the least one that admits a
\* game
LifespanLeast ==
    /\ app_state_cards = None
    /\ app_state_cards' = Some(MakeCatalog(2 * MinCards, 2 * MinCards))
    /\ UNCHANGED <<cookies, exchange, answered, graded, startup>>
    /\ UNCHANGED <<all_cards, session, result, submissions, graded_correct>>

\* one client of a server whose catalog comes and goes
NextApiUnload ==
    \/ LifespanLeast
    \/ Unload
    \/ GetTotalCards(1)
    \/ StartGame(1)
    \/ GetCurrentCard(1)
    \/ SubmitAnswerRoute(1)
    \/ GetGameResultsRoute(1)

SpecApiUnload == InitApi /\ [][NextApiUnload]_vars

\* lifespan of a server that loads, at one start, the least catalog that
\* admits a game and, at another, that catalog without its last card
LifespanDrift ==
    /\ app_state_cards = None
    /\ \E cards \in DriftCatalogs : app_state_cards' = Some(cards)
    /\ UNCHANGED <<cookies, exchange, answered, graded, startup>>
    /\ UNCHANGED <<all_cards, session, result, submissions, graded_correct>>

\* one client of a server whose catalog is replaced under the client's game
NextApiDrift ==
    \/ LifespanDrift
    \/ Unload
    \/ StartGame(1)
    \/ GetCurrentCard(1)
    \/ SubmitAnswerRoute(1)
    \/ GetGameResultsRoute(1)

SpecApiDrift == InitApi /\ [][NextApiDrift]_vars

\* fetch_cards_metadata returns the catalog or raises (get_object failed, or
\* the object is not the JSON of a list of cards)
FetchOutcomes ==
    { Ok(MakeCatalog(2 * MinCards, 2 * MinCards)),
      Raise("ClientError"), Raise("JSONDecodeError") }

\* the server process starts: the lifespan runs to its yield or raises
LifespanStartup ==
    /\ startup = NotStarted
    /\ \E initialize_cache \in BOOLEAN, fetch_cards_metadata \in FetchOutcomes :
         \E download_image \in
               [1..Len(fetch_cards_metadata.value) -> DownloadOutcomes] :
           LET r == lifespan(initialize_cache, fetch_cards_metadata, download_image)
           IN  /\ startup' = r.startup
               /\ app_state_cards' = r.app_state_cards
    /\ UNCHANGED <<cookies, exchange, answered, graded>>
    /\ UNCHANGED <<all_cards, session, result, submissions, graded_correct>>

\* requests are served once the lifespan has yielded; a server whose
\* lifespan raised exits without serving any
ServeStartGame == startup.pc = "serving" /\ StartGame(1)
ServeGetCurrentCard == startup.pc = "serving" /\ GetCurrentCard(1)
ServeSubmitAnswer == startup.pc = "serving" /\ SubmitAnswerRoute(1)

NextStartup ==
    \/ LifespanStartup
    \/ ServeStartGame
    \/ ServeGetCurrentCard
    \/ ServeSubmitAnswer

SpecStartup == InitApi /\ [][NextStartup]_vars

\* the engine called with a catalog of at most 10 cards
SpecSmallCatalogs == InitSmallCatalogs /\ [][Next]_vars

\* the session cookie that the request of an exchange carried, for an answer
\* request answered 200: the session stored, before submit_answer advanced it
carried(e) ==
    Some([e.response.cookie[1] EXCEPT
            !.current_index = @ - 1,
            !.score = IF e.response.body.correct THEN @ - 1 ELSE @])

\* client c puts back the cookie that its last answer request carried: the
\* cookie is the whole session and the server keeps none, so that this is
\* what a second request sent with the first one leaves, and what a client
\* does that resends an earlier cookie
ResendCookie(c) ==
    /\ exchange.client = c
    /\ exchange.route = "answer"
    /\ exchange.response.status = 200
    /\ cookies[c] = exchange.response.cookie
    /\ Len(graded[c]) < MaxGraded
    /\ cookies' = set_cookie(cookies, c, carried(exchange))
    /\ UNCHANGED <<app_state_cards, exchange, answered, graded, startup>>
    /\ UNCHANGED <<all_cards, session, result, submissions, graded_correct>>

\* a server that has loaded the least catalog that admits a game, and one
\* client that may resend cookies
InitApiReplay ==
    /\ all_cards = <<>>
    /\ NoCalls
    /\ app_state_cards = Some(MakeCatalog(2 * MinCards, 2 * MinCards))
    /\ cookies = [c \in Clients |-> None]
    /\ exchange = Exchange(0, "", <<>>, "none", Response(0, "", <<>>, None))
    /\ answered = [c \in Clients |-> 0]
    /\ graded = [c \in Clients |-> <<>>]
    /\ startup = NotStarted

NextApiReplay ==
    \/ StartGame(1)
    \/ GetCurrentCard(1)
    \/ SubmitAnswerRoute(1)
    \/ GetGameResultsRoute(1)
    \/ ResendCookie(1)

SpecApiReplay == InitApiReplay /\ [][NextApiReplay]_vars

----------------------------------------------------------------------------
(* Vocabulary of the properties *)

Range(f) == { f[i] : i \in DOMAIN f }

UniqueIds(cards) ==
    \A i, j \in 1..Len(cards) : cards[i].id = cards[j].id => i = j

\* the catalog cards that carry the id at position i (from 1) of the session
CardsAt(s, i, cards) == { c \in Range(cards) : c.id = s.cards[i] }

\* t is s without its leading and trailing whitespace
IsTrimOf(t, s) ==
    \E i \in 1..(Len(s) + 1) : \E j \in (i - 1)..Len(s) :
        /\ t = SubSeq(s, i, j)
        /\ \A k \in 1..(i - 1) : s[k] \in Whitespace
        /\ \A k \in (j + 1)..Len(s) : s[k] \in Whitespace
        /\ i <= j => (s[i] \notin Whitespace /\ s[j] \notin Whitespace)

\* a and b are equal once trimmed
TrimEqual(a, b) == \E t \in { SubSeq(a, i, j) : i \in 1..(Len(a) + 1), j \in 0..Len(a) } :
    IsTrimOf(t, a) /\ IsTrimOf(t, b)

\* a <= b in lexicographic order of the character codes
LexLeq(a, b) ==
    \E k \in 0..Min(Len(a), Len(b)) :
        /\ \A i \in 1..k : a[i] = b[i]
        /\ \/ k = Len(a)
           \/ k < Len(a) /\ k < Len(b) /\ a[k + 1] < b[k + 1]

\* x <= y for floats
FloatLeq(x, y) ==
    \/ x.mant = <<>>
    \/ /\ y.mant # <<>>
       /\ \/ x.exp < y.exp
          \/ x.exp = y.exp /\ LexLeq(x.mant, y.mant)

\* the digit of weight 2^i, 0 beyond the digits
digit(digits, i) == IF i < Len(digits) THEN digits[Len(digits) - i] ELSE 0

\* the carry into the digit of weight 2^i of the sum a + b: some lower place
\* generates a carry and every place between passes it on
carry_into(a, b, i) ==
    \E j \in 0..(i - 1) :
        /\ digit(a, j) = 1 /\ digit(b, j) = 1
        /\ \A k \in (j + 1)..(i - 1) : digit(a, k) = 1 \/ digit(b, k) = 1

\* the digits of a + b
plus(a, b) ==
    LET n == (IF Len(a) >= Len(b) THEN Len(a) ELSE Len(b)) + 1
    IN  normal([p \in 1..n |->
                  (digit(a, n - p) + digit(b, n - p)
                     + (IF carry_into(a, b, n - p) THEN 1 ELSE 0)) % 2])

\* a < b for natural numbers given by their digits, without leading zeros
NatLess(a, b) ==
    \/ Len(a) < Len(b)
    \/ Len(a) = Len(b) /\ a # b /\ LexLeq(a, b)

\* x * den = num exactly, for a float x and natural numbers num and den
ExactRatio(x, num, den) ==
    LET s == IF x.exp < 0 THEN 0 - x.exp ELSE 0
    IN  normal(times(x.mant, den, 0) \o Zeros(s + x.exp)) = normal(Bits(num) \o Zeros(s))

\* | x * den - num | < den / 2^k, for a float x and natural numbers num, den
Within(x, num, den, k) ==
    LET s == IF 0 - x.exp > k THEN 0 - x.exp ELSE k
        a == normal(times(x.mant, den, 0) \o Zeros(s + x.exp))
        n == normal(Bits(num) \o Zeros(s))
        t == normal(Bits(den) \o Zeros(s - k))
    IN  NatLess(a, plus(n, t)) /\ NatLess(n, plus(a, t))

\* the caller holds a session of n cards that is in progress / that is
\* complete, n answers having been graded
InProgressOf(n) ==
    IF session = None THEN FALSE
    ELSE session[1].total_cards = n /\ ~is_game_complete(session[1])
CompleteOf(n) ==
    IF session = None THEN FALSE
    ELSE session[1].total_cards = n /\ is_game_complete(session[1])
           /\ submissions = n

\* 0 <= score <= current_index <= total_cards = len(cards)
WellFormed(s) ==
    /\ 0 <= s.score
    /\ s.score <= s.current_index
    /\ s.current_index <= s.total_cards
    /\ s.total_cards = Len(s.cards)

OpIs(op) == result.op = op
Succeeded(op) == result.op = op /\ result.out.ok
Failed(op, error) == result.op = op /\ ~result.out.ok /\ result.out.error = error

----------------------------------------------------------------------------
(* Properties *)

\* C1: in every reachable state the session satisfies
\* 0 <= score <= current_index <= total_cards, and any results returned have
\* 0 <= score <= total and 0 <= percentage <= 100.
C1_ScoreIndexTotalOrdered ==
    /\ session # None =>
         /\ 0 <= session[1].score
         /\ session[1].score <= session[1].current_index
         /\ session[1].current_index <= session[1].total_cards
    /\ Succeeded("get_game_results") =>
         /\ 0 <= result.out.value.score
         /\ result.out.value.score <= result.out.value.total
         /\ FloatLeq(float_of(0), result.out.value.percentage)
         /\ FloatLeq(result.out.value.percentage, float_of(100))

\* C1 witness: results of a finished game with some answers right, some wrong
C1_Witness ==
    /\ Succeeded("get_game_results")
    /\ 0 < result.out.value.score
    /\ result.out.value.score < result.out.value.total

\* C2: for a catalog with unique ids and 5 <= num_cards <= floor(len / 2),
\* create_game_session succeeds with num_cards pairwise distinct ids of
\* catalog cards, current_index = 0, score = 0 and total_cards = num_cards.
C2_CreateValid ==
    ( /\ OpIs("create_game_session")
      /\ UniqueIds(all_cards)
      /\ MinCards <= result.arg[1]
      /\ result.arg[1] <= Len(all_cards) \div 2 )
    => /\ result.out.ok
       /\ session = Some(result.out.value)
       /\ Len(result.out.value.cards) = result.arg[1]
       /\ \A i, j \in 1..Len(result.out.value.cards) :
            i # j => result.out.value.cards[i] # result.out.value.cards[j]
       /\ \A i \in 1..Len(result.out.value.cards) :
            \E c \in Range(all_cards) : c.id = result.out.value.cards[i]
       /\ result.out.value.current_index = 0
       /\ result.out.value.score = 0
       /\ result.out.value.total_cards = result.arg[1]

\* C2 witness: a session of more than 5 cards, as many as the cap allows
C2_Witness ==
    /\ Succeeded("create_game_session")
    /\ result.arg[1] = Len(all_cards) \div 2
    /\ result.arg[1] > MinCards

\* C3: create_game_session fails for every num_cards < 5 and every
\* num_cards > floor(len / 2); the start route answers such a request 422 and
\* leaves the client's cookie as it was (no game, or the game it had).
C3_CreateInvalid ==
    /\ ( /\ OpIs("create_game_session")
         /\ (result.arg[1] < 5 \/ result.arg[1] > Len(all_cards) \div 2) )
       => ~result.out.ok /\ result.out.value = <<>>
    /\ \A num_cards \in MinRequest..MaxRequest :
         (num_cards < 5 \/ num_cards > Len(all_cards) \div 2) =>
           \A cookie \in { None, session } :
             \A r \in start_game(num_cards, Some(all_cards), cookie) :
               r.status = 422 /\ r.cookie = cookie

\* C3 witness: a request for one card more than the cap, at least 5, refused
C3_Witness ==
    /\ OpIs("create_game_session")
    /\ result.arg[1] = Len(all_cards) \div 2 + 1
    /\ result.arg[1] > 5
    /\ ~result.out.ok
    /\ session # None

\* C4: submit_answer grades an answer correct exactly when the answer and the
\* current card's correct answer are equal once leading and trailing
\* whitespace is removed from both: case and inner whitespace count.
C4_GradeTrimmedExact ==
    [][ (result'.op = "submit_answer" /\ result'.out.ok) =>
          \A c \in CardsAt(session[1], session[1].current_index + 1, all_cards) :
            result'.out.value.is_correct <=> TrimEqual(result'.arg, c.correct_answer)
      ]_vars

\* C4 witness: a padded answer accepted for a card whose stored answer itself
\* differs from it
C4_Witness ==
    /\ Succeeded("submit_answer")
    /\ result.out.value.is_correct
    /\ result.arg # result.out.value.correct_answer
    /\ Len(result.arg) > Len(result.out.value.correct_answer) + 2

\* C5: a successful submit_answer adds exactly 1 to current_index, adds
\* exactly 1 to score when the answer is graded correct and nothing otherwise;
\* no operation on a session lowers its current_index or its score.
C5_AdvanceByOne ==
    [][ /\ (result'.op = "submit_answer" /\ result'.out.ok) =>
             /\ session'[1].current_index = session[1].current_index + 1
             /\ session'[1].score =
                  session[1].score + (IF result'.out.value.is_correct THEN 1 ELSE 0)
        /\ (session # None /\ result'.op # "create_game_session") =>
             /\ session'[1].current_index >= session[1].current_index
             /\ session'[1].score >= session[1].score
      ]_vars

\* C5 witness: a game in which one answer was right and another wrong
C5_Witness ==
    /\ Succeeded("submit_answer")
    /\ ~result.out.value.is_correct
    /\ session[1].score >= 1
    /\ session[1].current_index > session[1].score

\* C6: a session of N cards is not complete after fewer than N successful
\* submit_answer calls and is complete after exactly N; on a complete session
\* get_current_card_with_choices and submit_answer fail with "Game is already
\* complete".
C6_CompleteAfterN ==
    /\ []( /\ session # None =>
                /\ submissions <= session[1].total_cards
                /\ is_game_complete(session[1]) <=>
                     submissions = session[1].total_cards
           /\ OpIs("is_game_complete") =>
                (result.out.value.is_complete <=> submissions = session[1].total_cards) )
    /\ [][ ( /\ session # None
             /\ submissions = session[1].total_cards
             /\ result'.op \in {"get_current_card_with_choices", "submit_answer"} )
           => /\ ~result'.out.ok
              /\ result'.out.error = "Game is already complete"
              /\ submissions' = submissions
         ]_vars

\* C6 witness: submit_answer refused on a session that has had all its answers
C6_Witness ==
    /\ Failed("submit_answer", "Game is already complete")
    /\ submissions = session[1].total_cards
    /\ submissions > 5

\* C7: the choices of an in-progress session are in ascending lexicographic
\* order and include the correct answer of the card at cards[current_index].
C7_ChoicesSortedWithCorrect ==
    Succeeded("get_current_card_with_choices") =>
      /\ \A i, j \in 1..Len(result.out.value.choices) :
           i < j => LexLeq(result.out.value.choices[i], result.out.value.choices[j])
      /\ \A c \in CardsAt(session[1], session[1].current_index + 1, all_cards) :
           c.correct_answer \in Range(result.out.value.choices)

\* C7 witness: five different choices, the correct one neither first nor last
C7_Witness ==
    /\ Succeeded("get_current_card_with_choices")
    /\ Cardinality(Range(result.out.value.choices)) = 5
    /\ \E c \in CardsAt(session[1], session[1].current_index + 1, all_cards) :
         \E i \in 2..4 : result.out.value.choices[i] = c.correct_answer

\* C8: the choices of an in-progress session contain no duplicate strings,
\* also when several catalog cards share an answer.
C8_NoDuplicateChoices ==
    Succeeded("get_current_card_with_choices") =>
      \A i, j \in 1..Len(result.out.value.choices) :
        i # j => result.out.value.choices[i] # result.out.value.choices[j]

\* C9: the number of choices is 1 + min(4, d), d the number of distinct
\* catalog answers that differ from the current card's correct answer.
C9_ChoiceCountDistinct ==
    Succeeded("get_current_card_with_choices") =>
      \A c \in CardsAt(session[1], session[1].current_index + 1, all_cards) :
        Len(result.out.value.choices) =
          1 + Min(4, Cardinality({ a \in { x.correct_answer : x \in Range(all_cards) } :
                                     a # c.correct_answer }))

\* C10: get_current_card_with_choices returns exactly 5 choices for every
\* in-progress session that create_game_session produced.
C10_FiveChoices ==
    Succeeded("get_current_card_with_choices") =>
      Len(result.out.value.choices) = 5

\* C11: get_game_results fails with "Game is not complete yet" for every
\* session with current_index < total_cards and succeeds for every session
\* with current_index >= total_cards; the results route answers the holder of
\* an incomplete game 400 and the holder of a complete game 200, and leaves
\* the cookie as it was, so that a repeated request is answered the same.
C11_ResultsOnlyWhenComplete ==
    /\ OpIs("get_game_results") =>
         IF session[1].current_index < session[1].total_cards
         THEN ~result.out.ok /\ result.out.error = "Game is not complete yet"
         ELSE result.out.ok
    /\ session # None =>
         LET r == get_game_results_route(session)
         IN  /\ r.status = IF session[1].current_index < session[1].total_cards
                            THEN 400 ELSE 200
             /\ r.cookie = session
             /\ get_game_results_route(r.cookie) = r

\* C11 witness: results refused to a game that lacks only its last answer
C11_Witness ==
    /\ Failed("get_game_results", "Game is not complete yet")
    /\ session[1].current_index = session[1].total_cards - 1
    /\ session[1].score > 0

\* C12: for every complete session get_game_results returns score =
\* session.score, total = session.total_cards and a percentage with
\* percentage * total_cards = score * 100.
C12_PercentageExact ==
    Succeeded("get_game_results") =>
      /\ result.out.value.score = session[1].score
      /\ result.out.value.total = session[1].total_cards
      /\ ExactRatio(result.out.value.percentage,
                    session[1].score * 100, session[1].total_cards)

\* C12 as amended: for every complete session get_game_results returns score
\* = session.score, total = session.total_cards and as percentage the float
\* (score / total_cards) * 100, which is within 2^-45 of score * 100 /
\* total_cards: | percentage * total_cards - score * 100 | < total_cards /
\* 2^45; it is exactly 0 for a score of 0 and for a session of no cards,
\* exactly 100 for a full score and exactly 60 for 3 of 5.
C12_PercentageRounded ==
    Succeeded("get_game_results") =>
      /\ result.out.value.score = session[1].score
      /\ result.out.value.total = session[1].total_cards
      /\ Within(result.out.value.percentage,
                session[1].score * 100, session[1].total_cards, 45)
      /\ session[1].score = 0 => result.out.value.percentage = float_of(0)
      /\ session[1].score = session[1].total_cards =>
           result.out.value.percentage = float_of(100)
      /\ (session[1].score = 3 /\ session[1].total_cards = 5) =>
           result.out.value.percentage = float_of(60)
      /\ percentage_of(GameSession(<<>>, 0, 0, 0)) = float_of(0)

\* C12 witness: results whose percentage is no quotient of two powers of two
C12_Witness ==
    /\ Succeeded("get_game_results")
    /\ result.out.value.score = 1
    /\ result.out.value.total = 6

\* C13: at every point of a session's life current_index is the number of
\* successful submit_answer calls since its creation and score is the number
\* of those graded correct; the current card's own answer is graded correct
\* and an answer that matches no card's answer is graded incorrect, so a game
\* of N own answers ends with results (N, N, 100) and a game of N answers
\* that match nothing with results (0, N, 0).
C13_CountsOfSubmissions ==
    /\ []( /\ session # None =>
                /\ session[1].current_index = submissions
                /\ session[1].score = graded_correct
           /\ (Succeeded("get_game_results") /\ graded_correct = submissions) =>
                /\ result.out.value.score = session[1].total_cards
                /\ result.out.value.total = session[1].total_cards
                /\ result.out.value.percentage = float_of(100)
           /\ (Succeeded("get_game_results") /\ graded_correct = 0) =>
                /\ result.out.value.score = 0
                /\ result.out.value.total = session[1].total_cards
                /\ result.out.value.percentage = float_of(0) )
    /\ [][ (result'.op = "submit_answer" /\ result'.out.ok) =>
             /\ (\E c \in CardsAt(session[1], session[1].current_index + 1, all_cards) :
                    result'.arg = c.correct_answer)
                  => graded_correct' = graded_correct + 1
             /\ (\A c \in Range(all_cards) : ~TrimEqual(result'.arg, c.correct_answer))
                  => graded_correct' = graded_correct
         ]_vars

\* C13 witness: the results of a game of six cards, every answer graded correct
C13_Witness ==
    /\ Succeeded("get_game_results")
    /\ graded_correct = submissions
    /\ submissions > 5

\* C14: when submit_answer fails, because the game is complete or because the
\* id of the current card is in the catalog no more, the session is as it was:
\* cards, current_index, score and total_cards are unchanged.
C14_FailedSubmitChangesNothing ==
    [][ (result'.op = "submit_answer" /\ ~result'.out.ok) =>
          /\ session' = session
          /\ result'.out.error = (IF is_game_complete(session[1])
                                  THEN "Game is already complete"
                                  ELSE "Card not found")
      ]_vars

\* C14 witness: an answer refused in mid-game for a card the catalog has lost
C14_Witness ==
    /\ Failed("submit_answer", "Card not found")
    /\ session[1].current_index > 0
    /\ session[1].current_index < session[1].total_cards

\* C15: get_current_card_with_choices, is_game_complete and get_game_results
\* leave the session as it was, whether they succeed or fail.
C15_ReadsChangeNothing ==
    [][ result'.op \in {"get_current_card_with_choices", "is_game_complete",
                        "get_game_results"}
          => session' = session
      ]_vars

\* C15 witness: the current card asked for in mid-game and not found
C15_Witness ==
    /\ Failed("get_current_card_with_choices", "Card not found")
    /\ session[1].score > 0
    /\ session[1].current_index < session[1].total_cards

\* C16: the answer route stores the session as the submission left it, so
\* after a start request and k answer requests answered 200, 0 <= k <
\* total_cards, the client's cookie holds current_index = k and its next
\* current-card request is answered with card_index = k.
C16_CardIndexCountsAnswers ==
    /\ \A c \in Clients :
         cookies[c] # None =>
           /\ cookies[c][1].current_index = answered[c]
           /\ (app_state_cards # None /\ answered[c] < cookies[c][1].total_cards) =>
                \A r \in get_current_card(app_state_cards, cookies[c]) :
                  r.status = 200 /\ r.body.card_index = answered[c]
    /\ (exchange.route = "current" /\ exchange.response.status = 200) =>
         exchange.response.body.card_index = answered[exchange.client]

\* C16 witness: the current card served after three answers, as card 3
C16_Witness ==
    /\ exchange.route = "current"
    /\ exchange.response.status = 200
    /\ answered[exchange.client] = 3
    /\ exchange.response.body.card_index = 3

\* C17: a start or answer request of one client leaves the stored session of
\* every other client as it was, however the requests of two clients
\* interleave.
C17_ClientsIsolated ==
    [][ \A c \in Clients :
          (exchange'.client = c /\ exchange'.route \in {"start", "answer"}) =>
            \A d \in Clients \ {c} : cookies'[d] = cookies[d]
      ]_vars

\* C17 witness: an answer of client 1 graded while client 2 is in mid-game
\* with other cards
C17_Witness ==
    /\ exchange.client = 1
    /\ exchange.route = "answer"
    /\ exchange.response.status = 200
    /\ cookies[2] # None
    /\ cookies[2][1].current_index = 1
    /\ cookies[2][1].cards # cookies[1][1].cards

\* C18: a start request answered 200 replaces whatever game the client had,
\* none, one in progress or a complete one: afterwards the client's cookie
\* holds one session, with current_index = 0, score = 0 and total_cards the
\* number of cards requested.
C18_StartReplacesSession ==
    /\ (exchange.route = "start" /\ exchange.response.status = 200) =>
         /\ cookies[exchange.client] # None
         /\ cookies[exchange.client][1].current_index = 0
         /\ cookies[exchange.client][1].score = 0
         /\ cookies[exchange.client][1].total_cards = exchange.arg
         /\ Len(cookies[exchange.client][1].cards) = exchange.arg
         /\ answered[exchange.client] = 0
    /\ \A c \in Clients : \A num_cards \in MinRequest..MaxRequest :
         \A r \in start_game(num_cards, app_state_cards, cookies[c]) :
           r.status = 200 =>
             /\ r.cookie # None
             /\ r.cookie[1].current_index = 0
             /\ r.cookie[1].score = 0
             /\ r.cookie[1].total_cards = num_cards
             /\ r \in start_game(num_cards, app_state_cards, None)

\* C18 witness: a game of six cards started over a complete game
C18_Witness ==
    /\ exchange.route = "start"
    /\ exchange.response.status = 200
    /\ exchange.before = "complete"
    /\ exchange.arg > 5

\* C19: is_complete in an answer response is true exactly when the answer
\* just graded was for the last card, that is when the session stored has
\* current_index = total_cards; it is false for the first total_cards - 1
\* answers of a game.
C19_IsCompleteOnLastCard ==
    (exchange.route = "answer" /\ exchange.response.status = 200) =>
      /\ exchange.response.body.is_complete <=>
           cookies[exchange.client][1].current_index
             = cookies[exchange.client][1].total_cards
      /\ exchange.response.body.is_complete <=>
           answered[exchange.client] = cookies[exchange.client][1].total_cards
      /\ answered[exchange.client] < cookies[exchange.client][1].total_cards =>
           ~exchange.response.body.is_complete

\* C19 witness: the sixth answer of a game of six cards, reported complete
C19_Witness ==
    /\ exchange.route = "answer"
    /\ exchange.response.status = 200
    /\ exchange.response.body.is_complete
    /\ answered[exchange.client] > 5

\* C20: a current-card, answer or results request from a client that has no
\* stored game is answered 404 "No active game" and leaves the client without
\* a session.
C20_NoGame404 ==
    (exchange.route \in {"current", "answer", "results"} /\ exchange.before = "none") =>
      /\ exchange.response.status = 404
      /\ exchange.response.detail = "No active game. Please start a new game."
      /\ cookies[exchange.client] = None

\* C20 as amended: a current-card or results request, or an answer request
\* whose answer is not empty, from a client that has no stored game is
\* answered 404 "No active game", also while the catalog is not loaded; an
\* answer request with an empty answer is answered 422; none of them leaves
\* the client a session.
C20_NoGame404WellFormed ==
    (exchange.route \in {"current", "answer", "results"} /\ exchange.before = "none") =>
      /\ cookies[exchange.client] = None
      /\ IF exchange.route = "answer" /\ Len(exchange.arg) = 0
         THEN exchange.response.status = 422
         ELSE /\ exchange.response.status = 404
              /\ exchange.response.detail = "No active game. Please start a new game."

\* C20 witness: an answer refused 404 by a server that has not loaded its
\* catalog
C20_Witness ==
    /\ exchange.route = "answer"
    /\ exchange.before = "none"
    /\ exchange.response.status = 404
    /\ app_state_cards = None

\* C21: while the catalog is not loaded, the total-cards route and the start
\* route respond 503 and start leaves the client's cookie as it was; the
\* current-card and answer requests of a client that has a session respond
\* 503 and leave that session as it was.
C21_NotLoaded503 ==
    app_state_cards = None =>
      \A c \in Clients :
        /\ get_total_cards(app_state_cards, cookies[c]).status = 503
        /\ \A num_cards \in MinRequest..MaxRequest :
             \A r \in start_game(num_cards, app_state_cards, cookies[c]) :
               r.status = 503 /\ r.cookie = cookies[c]
        /\ cookies[c] # None =>
             /\ \A r \in get_current_card(app_state_cards, cookies[c]) :
                  r.status = 503 /\ r.cookie = cookies[c]
             /\ \A answer \in AnswerRequests(app_state_cards, cookies[c]) :
                  \A r \in { submit_answer_route(answer, app_state_cards, cookies[c]) } :
                    r.status = 503 /\ r.cookie = cookies[c]

\* C21 as amended: while the catalog is not loaded, the total-cards route
\* responds 503, a start request with num_cards >= 5 responds 503, and the
\* current-card request and the answer requests with a non-empty answer of a
\* client that has a session respond 503; a start request with num_cards < 5
\* and an answer request with an empty answer respond 422; no request served
\* while the catalog is not loaded changes the client's cookie.
C21_NotLoaded503WellFormed ==
    /\ [](app_state_cards = None =>
          \A c \in Clients :
            /\ get_total_cards(app_state_cards, cookies[c]).status = 503
            /\ \A num_cards \in MinRequest..MaxRequest :
                 \A r \in start_game(num_cards, app_state_cards, cookies[c]) :
                   /\ r.status = IF valid_start_request(num_cards) THEN 503 ELSE 422
                   /\ r.cookie = cookies[c]
            /\ cookies[c] # None =>
                 /\ \A r \in get_current_card(app_state_cards, cookies[c]) :
                      r.status = 503 /\ r.cookie = cookies[c]
                 /\ \A answer \in AnswerRequests(app_state_cards, cookies[c]) :
                      \A r \in { submit_answer_route(answer, app_state_cards, cookies[c]) } :
                        /\ r.status = IF valid_answer_request(answer) THEN 503 ELSE 422
                        /\ r.cookie = cookies[c])
    /\ [][ (app_state_cards = None /\ app_state_cards' = None) =>
            /\ cookies' = cookies
            /\ (exchange' # exchange /\ exchange'.route \in {"total", "start"}) =>
                 exchange'.response.status \in {503, 422}
            /\ (exchange' # exchange /\ exchange'.route \in {"current", "answer"}
                   /\ exchange'.before # "none") =>
                 exchange'.response.status \in {503, 422}
       ]_vars

\* C21 witness: an answer of a client in mid-game refused 503, its session
\* kept
C21_Witness ==
    /\ app_state_cards = None
    /\ exchange.route = "answer"
    /\ exchange.before = "in progress"
    /\ exchange.response.status = 503
    /\ cookies[exchange.client] # None
    /\ cookies[exchange.client][1].current_index = 2

\* C22: complete is terminal.  Once current_index = total_cards no engine
\* operation on the session changes any of its fields, whatever the catalog,
\* and current_index never exceeds total_cards; the caller holds a session in
\* progress again only through a successful create_game_session, which gives
\* a new session at index 0.
C22_CompleteIsTerminal ==
    /\ [](session # None =>
          /\ session[1].current_index <= session[1].total_cards
          /\ is_game_complete(session[1]) =>
               /\ session[1].current_index = session[1].total_cards
               /\ \A answer \in AnswerInputs(session[1], all_cards) :
                    submit_answer(session[1], answer, all_cards).session = session[1])
    /\ [][ (session # None /\ is_game_complete(session[1])) =>
            /\ (result'.op # "create_game_session" \/ ~result'.out.ok) =>
                 session' = session
            /\ ~is_game_complete(session'[1]) =>
                 /\ result'.op = "create_game_session"
                 /\ result'.out.ok
                 /\ session'[1].current_index = 0
                 /\ session'[1].score = 0
       ]_vars

\* C22 witness: an answer refused on a complete session that the caller holds
\* under a catalog other than the one it was created from
C22_Witness ==
    /\ Failed("submit_answer", "Game is already complete")
    /\ session[1].current_index = session[1].total_cards
    /\ \E i \in 1..Len(session[1].cards) :
         find_card(session[1].cards[i], all_cards) = None

\* C23: when the caller keeps submitting answers against a stable catalog,
\* every session created reaches the complete state, and it does so with
\* exactly total_cards successful submissions.
C23_EverySessionCompletes ==
    /\ \A n \in MinCards..MaxRequest :
         InProgressOf(n) ~> CompleteOf(n)
    /\ [](session # None =>
          (is_game_complete(session[1]) <=> submissions = session[1].total_cards))

\* C23 witness: a game completed by its last answer, two answers graded right
C23_Witness ==
    /\ Succeeded("submit_answer")
    /\ is_game_complete(session[1])
    /\ submissions = session[1].total_cards
    /\ session[1].score = 2

\* C24: the card list and the total of a session never change after its
\* creation: submit_answer leaves cards and total_cards as they were, and
\* total_cards = len(cards) in every reachable state, so that the read of
\* cards[current_index] on a session in progress is within range.
C24_CardsAndTotalFixed ==
    /\ [](session # None =>
          /\ session[1].total_cards = Len(session[1].cards)
          /\ ~is_game_complete(session[1]) =>
               session[1].current_index + 1 \in DOMAIN session[1].cards
          /\ \A answer \in AnswerInputs(session[1], all_cards) :
               \E r \in { submit_answer(session[1], answer, all_cards) } :
                 /\ r.session.cards = session[1].cards
                 /\ r.session.total_cards = session[1].total_cards)
    /\ [][ (session # None /\ ~(result'.op = "create_game_session" /\ result'.out.ok)) =>
            /\ session'[1].cards = session[1].cards
            /\ session'[1].total_cards = session[1].total_cards
       ]_vars

\* C24 witness: the last card of a game of six read and answered
C24_Witness ==
    /\ Succeeded("submit_answer")
    /\ Len(session[1].cards) = 6
    /\ session[1].current_index = 6

\* C25: on a session in progress whose cards[current_index] is the id of no
\* catalog card, get_current_card_with_choices and submit_answer both fail
\* with the card-not-found error; the completion check comes first, so on a
\* complete session both fail with the game-complete error, also when ids of
\* the session are absent from the catalog.
C25_CardNotFound ==
    /\ [](session # None =>
          IF is_game_complete(session[1])
          THEN /\ get_current_card_with_choices(session[1], all_cards)
                    = { Raise("Game is already complete") }
               /\ \A answer \in AnswerInputs(session[1], all_cards) :
                    submit_answer(session[1], answer, all_cards).out
                      = Raise("Game is already complete")
          ELSE CardsAt(session[1], session[1].current_index + 1, all_cards) = {} =>
               /\ get_current_card_with_choices(session[1], all_cards)
                    = { Raise("Card not found") }
               /\ \A answer \in AnswerInputs(session[1], all_cards) :
                    submit_answer(session[1], answer, all_cards).out
                      = Raise("Card not found"))
    /\ [][ (session # None
             /\ result'.op \in {"get_current_card_with_choices", "submit_answer"}) =>
            IF is_game_complete(session[1])
            THEN result'.out = Raise("Game is already complete")
            ELSE CardsAt(session[1], session[1].current_index + 1, all_cards) = {} =>
                   result'.out = Raise("Card not found")
       ]_vars

\* C25 witness: the choices refused because the current card of a game in
\* progress has left the catalog
C25_Witness ==
    /\ Failed("get_current_card_with_choices", "Card not found")
    /\ ~is_game_complete(session[1])
    /\ CardsAt(session[1], session[1].current_index + 1, all_cards) = {}

\* C26: a session that create_game_session made from a catalog and that is
\* always used with that catalog never meets the card-not-found error, in
\* get_current_card_with_choices or in submit_answer, at any index of the
\* game.
C26_NoCardNotFoundOnOwnCatalog ==
    /\ result.out.error # "Card not found"
    /\ session # None =>
         /\ \A i \in DOMAIN session[1].cards : CardsAt(session[1], i, all_cards) # {}
         /\ \A out \in get_current_card_with_choices(session[1], all_cards) :
              out.error # "Card not found"
         /\ \A answer \in AnswerInputs(session[1], all_cards) :
              submit_answer(session[1], answer, all_cards).out.error # "Card not found"

\* C26 witness: the choices of the sixth card of a game of six, served
C26_Witness ==
    /\ Succeeded("get_current_card_with_choices")
    /\ result.out.value.card_index = 5
    /\ result.out.value.total_cards = 6

\* C27: a successful submit_answer returns, whether it graded the answer
\* correct or not, the correct-answer string, unmodified, of the card at the
\* index the session had before the call, not of the card that follows.
C27_ReturnsAnswerOfCardAnswered ==
    [][ (result'.op = "submit_answer" /\ result'.out.ok) =>
          /\ CardsAt(session[1], session[1].current_index + 1, all_cards) # {}
          /\ \A c \in CardsAt(session[1], session[1].current_index + 1, all_cards) :
               result'.out.value.correct_answer = c.correct_answer
          /\ session'[1].current_index = session[1].current_index + 1
      ]_vars

\* C27 witness: a wrong answer to a card whose answer starts with a space,
\* the answer returned with its space, the next card having another answer
C27_Witness ==
    /\ Succeeded("submit_answer")
    /\ ~result.out.value.is_correct
    /\ result.out.value.correct_answer = <<32, 98>>
    /\ ~is_game_complete(session[1])
    /\ \A c \in CardsAt(session[1], session[1].current_index + 1, all_cards) :
         c.correct_answer # <<32, 98>>

\* C28: the two queries are gated by complementary states.  In every
\* reachable state of a session over a stable catalog exactly one of
\* get_current_card_with_choices and get_game_results succeeds: the former
\* exactly when current_index < total_cards, the latter exactly when
\* current_index >= total_cards.
C28_QueriesComplementary ==
    session # None =>
      /\ \A out \in get_current_card_with_choices(session[1], all_cards) :
           /\ out.ok <=> session[1].current_index < session[1].total_cards
           /\ out.ok <=> ~get_game_results(session[1]).ok
      /\ get_game_results(session[1]).ok <=>
           session[1].current_index >= session[1].total_cards
      /\ OpIs("get_current_card_with_choices") =>
           (result.out.ok <=> session[1].current_index < session[1].total_cards)
      /\ OpIs("get_game_results") =>
           (result.out.ok <=> session[1].current_index >= session[1].total_cards)

\* C28 witness: the results refused one card before the end of a game, where
\* the choices are served
C28_Witness ==
    /\ Failed("get_game_results", "Game is not complete yet")
    /\ session[1].current_index = session[1].total_cards - 1
    /\ \E out \in get_current_card_with_choices(session[1], all_cards) : out.ok

\* C29: no choice shown as a distractor is accepted as correct: on every
\* session in progress, every string among the choices that
\* get_current_card_with_choices returns, other than the correct answer of
\* the current card, is graded incorrect by submit_answer at the same index.
C29_DistractorsGradedWrong ==
    (session # None /\ ~is_game_complete(session[1])) =>
      \A out \in get_current_card_with_choices(session[1], all_cards) :
        out.ok =>
          \A c \in CardsAt(session[1], session[1].current_index + 1, all_cards) :
            \A choice \in Range(out.value.choices) \ { c.correct_answer } :
              \E r \in { submit_answer(session[1], choice, all_cards) } :
                r.out.ok /\ ~r.out.value.is_correct

\* C30: at one session state get_current_card_with_choices and submit_answer
\* resolve the same catalog card, also when the catalog repeats an id: each
\* succeeds when the other does, the correct answer that submit_answer
\* returns is among the choices that get_current_card_with_choices returns,
\* and the image shown is that of the card whose answer is returned.
C30_SameCardResolved ==
    (session # None /\ ~is_game_complete(session[1])) =>
      /\ \A out \in get_current_card_with_choices(session[1], all_cards) :
           \A answer \in AnswerInputs(session[1], all_cards) :
             \E r \in { submit_answer(session[1], answer, all_cards) } :
               /\ out.ok <=> r.out.ok
               /\ out.ok =>
                    /\ r.out.value.correct_answer \in Range(out.value.choices)
                    /\ \E c \in CardsAt(session[1], session[1].current_index + 1, all_cards) :
                         /\ out.value.image_url = <<"/images/", c.image_filename>>
                         /\ r.out.value.correct_answer = c.correct_answer
      /\ Succeeded("get_current_card_with_choices") =>
           \A answer \in AnswerInputs(session[1], all_cards) :
             submit_answer(session[1], answer, all_cards).out.value.correct_answer
               \in Range(result.out.value.choices)

\* C30 witness: the choices served for a card whose id two catalog cards
\* carry
C30_Witness ==
    /\ Succeeded("get_current_card_with_choices")
    /\ Cardinality(CardsAt(session[1], session[1].current_index + 1, all_cards)) = 2
    /\ session[1].current_index > 0

\* C31: within one game each card position is graded at most once, whatever
\* the requests of the client, also when two answer requests carry the same
\* session cookie or the client resends an earlier one: no position occurs
\* twice among the positions that the answer requests of a game graded.
C31_PositionGradedOnce ==
    \A c \in Clients :
      \A i, j \in 1..Len(graded[c]) : i # j => graded[c][i] # graded[c][j]

C33_ErrorsKeepSession ==
    /\ [](\A c \in Clients :
            /\ \A num_cards \in MinRequest..MaxRequest :
                 \A r \in start_game(num_cards, app_state_cards, cookies[c]) :
                   r.status # 200 => r.cookie = cookies[c]
            /\ \A r \in get_current_card(app_state_cards, cookies[c]) :
                 r.status # 200 => r.cookie = cookies[c]
            /\ \A answer \in AnswerRequests(app_state_cards, cookies[c]) :
                 \E r \in { submit_answer_route(answer, app_state_cards, cookies[c]) } :
                   /\ r.status # 200 => r.cookie = cookies[c]
                   /\ stage(cookies[c]) = "complete" => r.status \in {400, 422, 503}
            /\ get_game_results_route(cookies[c]).status # 200 =>
                 get_game_results_route(cookies[c]).cookie = cookies[c])
    /\ [][ exchange'.response.status \in {404, 400, 422, 503} => cookies' = cookies ]_vars

\* C33 witness: a start request for more cards than half the catalog refused
\* 422 while the client is in mid-game, its game kept
C33_Witness ==
    /\ exchange.route = "start"
    /\ exchange.arg > 5
    /\ exchange.response.status = 422
    /\ exchange.before = "in progress"
    /\ app_state_cards # None
    /\ cookies[exchange.client] # None
    /\ cookies[exchange.client][1].current_index = 2

\* C34: when the stored session names a card id that is absent from the
\* catalog, the routes report a server-side error (a 5xx status), distinct
\* from the client error (400) with which they report game-complete and
\* game-not-complete.
C34_CardNotFoundIsServerError ==
    (exchange.route \in {"current", "answer"}
       /\ exchange.response.detail = "Card not found") =>
      /\ exchange.response.status \in 500..599
      /\ exchange.response.status # 400

\* the image files of a list of cards
Images(cards) == { cards[i].image_filename : i \in 1..Len(cards) }

\* the downloads of a startup that did not write their file
FailedAttempts == { i \in 1..Len(startup.attempted) :
                      startup.attempted[i].outcome # "ok" }

\* the startup asked for the image of every card it fetched, in their order
EveryImageAttempted ==
    /\ Len(startup.attempted) = Len(startup.cards)
    /\ \A i \in 1..Len(startup.cards) :
         startup.attempted[i].image = startup.cards[i].image_filename

\* C35: app.state.cards is set only by a startup in which the metadata was
\* fetched and the image of every card was downloaded; a startup in which a
\* step failed has raised and leaves the catalog unpublished, so a game is
\* only ever started with every image of the catalog in the cache.
C35_PublishedOnlyWhenCached ==
    /\ app_state_cards # None =>
         /\ startup.pc = "serving"
         /\ startup.error = ""
         /\ app_state_cards = Some(startup.cards)
         /\ EveryImageAttempted
         /\ FailedAttempts = {}
         /\ Images(app_state_cards[1]) \subseteq startup.cache
    /\ startup.pc = "failed" =>
         /\ startup.error # ""
         /\ app_state_cards = None
    /\ startup.pc = "not started" => app_state_cards = None
    /\ (exchange.route = "start" /\ exchange.response.status = 200) =>
         /\ app_state_cards # None
         /\ \A i \in 1..Len(exchange.response.cookie[1].cards) :
              \E card \in Range(startup.cards) :
                /\ card.id = exchange.response.cookie[1].cards[i]
                /\ card.image_filename \in startup.cache

C35_Witness ==
    /\ startup.pc = "serving"
    /\ Len(startup.attempted) = 2 * MinCards
    /\ exchange.route = "start"
    /\ exchange.response.status = 200

Answers(cards) == { cards[i].correct_answer : i \in 1..Len(cards) }

\* C37: for every session in progress, every answer of a catalog card that
\* differs from the current card's correct answer is among the choices of
\* some outcome of get_current_card_with_choices, the answers of the other
\* cards of the session included.
C37_AnyCatalogAnswerMayBeDistractor ==
    (session # None /\ Len(all_cards) > 0) =>
      LET s == session[1]
          outcomes == get_current_card_with_choices(s, all_cards)
      IN  ~is_game_complete(s) =>
            \A current \in CardsAt(s, s.current_index + 1, all_cards) :
              /\ \A answer \in Answers(all_cards) \ {current.correct_answer} :
                   \E out \in outcomes :
                     out.ok /\ answer \in Range(out.value.choices)
              /\ \A i \in 1..Len(s.cards) :
                   \A card \in CardsAt(s, i, all_cards) :
                     card.correct_answer # current.correct_answer =>
                       \E out \in outcomes :
                         out.ok /\ card.correct_answer \in Range(out.value.choices)

\* C37 witness: choices returned that hold the answer of the card that comes
\* next in the session
C37_Witness ==
    /\ Succeeded("get_current_card_with_choices")
    /\ session[1].current_index + 2 <= session[1].total_cards
    /\ \E card \in CardsAt(session[1], session[1].current_index + 2, all_cards) :
         \E current \in CardsAt(session[1], session[1].current_index + 1, all_cards) :
           /\ card.correct_answer # current.correct_answer
           /\ card.correct_answer \in Range(result.out.value.choices)

\* C38: create_game_session tests the minimum before the cap: num_cards < 5
\* fails with "at least 5" also when it exceeds floor(len / 2), num_cards >= 5
\* above floor(len / 2) fails with "must not exceed", and with a catalog of
\* fewer than 10 cards every num_cards fails.
C38_MinimumBeforeCap ==
    /\ \A num_cards \in MinRequest..MaxRequest :
         \A out \in create_game_session(num_cards, all_cards) :
           /\ num_cards < 5 =>
                out = Raise("Number of cards must be at least 5")
           /\ (num_cards >= 5 /\ num_cards > Len(all_cards) \div 2) =>
                out = Raise("Number of cards must not exceed half of available cards")
           /\ Len(all_cards) < 10 => ~out.ok
    /\ OpIs("create_game_session") =>
         /\ result.arg[1] < 5 =>
              Failed("create_game_session", "Number of cards must be at least 5")
         /\ (result.arg[1] >= 5 /\ result.arg[1] > Len(all_cards) \div 2) =>
              Failed("create_game_session",
                     "Number of cards must not exceed half of available cards")
         /\ Len(all_cards) < 10 => ~result.out.ok /\ session = None

\* C38 witness: a request below the minimum and above the cap, refused for
\* being below the minimum
C38_Witness ==
    /\ Failed("create_game_session", "Number of cards must be at least 5")
    /\ result.arg[1] < 5
    /\ result.arg[1] > Len(all_cards) \div 2

====
